---- MODULE Spec2Model ----
(***************************************************************************)
(* Change detection and manifest reconciliation of the autopilot code      *)
(* indexer: the manifest store (src/modules/db.js) and the tree scanner    *)
(* and fingerprinter (src/modules/fsInput.js).                             *)
(*                                                                         *)
(* Every store operation opens a connection of its own (getDB), queues     *)
(* CREATE TABLE IF NOT EXISTS on it and then its own statement, and        *)
(* returns to its caller without waiting for either: the statements of     *)
(* different connections run later, in any order, against the one          *)
(* database file.                                                          *)
(***************************************************************************)
EXTENDS Integers, Sequences, FiniteSets, TLC

VARIABLES
    \* the manifest store (db.js)
    tableExists,    \* the database file holds the "files" table
    files,          \* the rows of the "files" table, in rowid order
    conns,          \* the connections opened so far, in the order of the calls
    \* the scanned tree and the module state of fsInput.js
    fs,                       \* absolute path -> [kind, content, mtimeMs]
    ignoreList,               \* process.env.IGNORE_LIST.split(',')
    fileExtensionsToProcess,  \* process.env.FILE_EXTENSIONS_TO_PROCESS.split(',')
    totalFiles,
    completedFiles,
    progress,       \* <<the percentage updateProgressBar printed last>>, or <<>>
    filePaths,      \* what getFilePaths returned to the last loadFiles
    loaded,         \* how the last loadFiles ended, and the files it built
    scans,          \* the number of loadFiles calls so far
    \* one reconciliation pass
    live,           \* the FileRecords of the current scan
    manifest,       \* the projection getDBFiles resolved with
    changeSet,      \* the classification of the pass
    step,           \* where the caller of the pass stands
    passes          \* the change-sets of the passes completed so far

storeVars == <<tableExists, files, conns>>
scanVars == <<fs, ignoreList, fileExtensionsToProcess, totalFiles, completedFiles,
              progress, filePaths, loaded, scans>>
passVars == <<live, manifest, changeSet, step, passes>>
vars == <<storeVars, scanVars, passVars>>

----------------------------------------------------------------------------
(* Bounds of the model *)

\* The number of store operations one run issues.
MaxOps == 3

\* The number of files and directories below the root of a scanned tree.
MaxNodes == 3

\* The number of loadFiles calls in one process.
MaxScans == 2

----------------------------------------------------------------------------
(* Collaborators that are not part of the two source files *)

\* SQL NULL, and the value of a field that holds nothing.
NULL == "NULL"

\* tokenHelper.countTokens: text -> integer.
countTokens(text) ==
    CASE text = "" -> 0
      [] text = "x" -> 1
      [] text = "y" -> 2
      [] text = "z" -> 3
      [] text = "s1" -> 4
      [] text = "s2" -> 5
      [] OTHER -> 6

\* hashing.hashFile: a digest that is a pure, injective function of the content.
hashFile(fileContent) == <<"sha", fileContent>>

----------------------------------------------------------------------------
(* The "files" table and the three SQL statements of db.js *)

\* The columns of the table, as CREATE TABLE declares them.
TableColumns ==
    <<"path", "tokensCount", "summary", "summaryTokensCount",
      "hash", "timestamp", "dependenciesLibs">>

ColumnSet == {TableColumns[i] : i \in 1..Len(TableColumns)}

\* The column list of the INSERT OR REPLACE statement.
InsertColumns ==
    <<"path", "tokensCount", "summary", "summaryTokensCount",
      "hash", "timestamp", "dependenciesLibs">>

\* The placeholders bound with the hash and the timestamp in each other's place.
InsertParamsSwapped(file, summary, dependenciesLibs) ==
    <<file.filePath, file.fileTokensCount, summary, countTokens(summary),
      file.fileTimestamp, file.fileHash, dependenciesLibs>>

\* The values insertOrUpdateFile binds to the statement's placeholders.
InsertParams(file, summary, dependenciesLibs) ==
    <<file.filePath, file.fileTokensCount, summary, countTokens(summary),
      file.fileHash, file.fileTimestamp, dependenciesLibs>>

\* The position of column c in a column list, 0 when it is not listed.
ColumnIndex(cols, c) ==
    IF \E i \in 1..Len(cols) : cols[i] = c
    THEN CHOOSE i \in 1..Len(cols) : cols[i] = c
    ELSE 0

\* The row an INSERT builds: a listed column takes its bound value, a column
\* that is not listed is NULL.
NewRow(cols, params) ==
    [c \in ColumnSet |->
        IF ColumnIndex(cols, c) = 0 THEN NULL ELSE params[ColumnIndex(cols, c)]]

\* INSERT OR IGNORE in place of INSERT OR REPLACE: a row in conflict on the
\* primary key stays as it is.
InsertOrIgnore(tbl, cols, params) ==
    LET row == NewRow(cols, params)
    IN  IF \E i \in 1..Len(tbl) : tbl[i].path = row.path THEN tbl
        ELSE Append(tbl, row)

\* An update of the fingerprint columns alone in place of INSERT OR REPLACE:
\* an existing row keeps its summary and its dependencies.
UpdateFingerprintOnly(tbl, cols, params) ==
    LET row == NewRow(cols, params)
    IN  IF \E i \in 1..Len(tbl) : tbl[i].path = row.path
        THEN [i \in 1..Len(tbl) |->
                IF tbl[i].path = row.path
                THEN [tbl[i] EXCEPT !.hash = row.hash, !.timestamp = row.timestamp,
                                    !.tokensCount = row.tokensCount]
                ELSE tbl[i]]
        ELSE Append(tbl, row)

\* A plain INSERT into a table without the primary key: the new row is added
\* whatever the table holds.
InsertPlain(tbl, cols, params) == Append(tbl, NewRow(cols, params))

\* INSERT OR REPLACE INTO files (...) VALUES (...): the row in conflict on
\* the primary key is deleted and the new row is inserted at a new rowid.
InsertOrReplace(tbl, cols, params) ==
    LET row == NewRow(cols, params)
    IN  Append(SelectSeq(tbl, LAMBDA r : r.path # row.path), row)

\* DELETE FROM files, without its WHERE clause: every row goes.
DeleteEveryRow(tbl, filePath) == <<>>

\* DELETE FROM files WHERE path = ?
DeleteWhere(tbl, filePath) == SelectSeq(tbl, LAMBDA r : r.path # filePath)

\* SELECT path, hash, timestamp FROM files
SelectProjection(tbl) ==
    [i \in 1..Len(tbl) |->
        [path |-> tbl[i].path, hash |-> tbl[i].hash, timestamp |-> tbl[i].timestamp]]

----------------------------------------------------------------------------
(* Inputs of the store operations *)

\* The object parseFileContent returns.
FileRecord(relativePath, fileContent, mtimeMs) ==
    [filePath        |-> relativePath,
     fileContent     |-> fileContent,
     fileTokensCount |-> countTokens(fileContent),
     fileHash        |-> hashFile(fileContent),
     fileTimestamp   |-> mtimeMs]

NoFile == FileRecord(NULL, NULL, 0)

StorePaths == {<<"a.js">>, <<"b.js">>}

\* Two generations of a file and of what the summariser made of it: every
\* column but the path differs between them.
Generations ==
    {[content |-> "x", mtimeMs |-> 1, summary |-> "s1", dependenciesLibs |-> "d1"],
     [content |-> "z", mtimeMs |-> 2, summary |-> "s2", dependenciesLibs |-> "d2"]}

----------------------------------------------------------------------------
(* Connections *)

\* getDB: a new connection, with CREATE TABLE IF NOT EXISTS queued on it
\* inside db.serialize; the caller's statement is queued behind it. The
\* connection is open from here on: db.js has no call of close, in the
\* operations or in their callbacks.
getDB(op, statement) ==
    [op               |-> op,
     open             |-> TRUE,
     queue            |-> <<"CREATE", statement>>,
     file             |-> NoFile,
     filePath         |-> NULL,
     summary          |-> NULL,
     dependenciesLibs |-> NULL,
     result           |-> "none",      \* what the statement's callback got
     returned         |-> "undefined", \* what the caller holds
     rows             |-> <<>>]

Issued == Len(conns)

\* insertOrUpdateFile(codeBaseDirectory, file, summary, dependenciesLibs)
insertOrUpdateFile(file, summary, dependenciesLibs) ==
    /\ conns' = Append(conns,
          [getDB("insertOrUpdateFile", "INSERT") EXCEPT
              !.file = file, !.filePath = file.filePath,
              !.summary = summary, !.dependenciesLibs = dependenciesLibs])
    /\ UNCHANGED <<tableExists, files>>

\* deleteFile(codeBaseDirectory, filePath)
deleteFile(filePath) ==
    /\ conns' = Append(conns,
          [getDB("deleteFile", "DELETE") EXCEPT !.filePath = filePath])
    /\ UNCHANGED <<tableExists, files>>

\* getDBFiles(codeBaseDirectory): the caller holds a pending promise.
getDBFiles ==
    /\ conns' = Append(conns,
          [getDB("getDBFiles", "SELECT") EXCEPT !.returned = "pending"])
    /\ UNCHANGED <<tableExists, files>>

\* createDB(codeBaseDirectory): getDB, then createFilesTable once more. It is
\* the start-up call of the program: the first operation, when it is made.
createDB ==
    /\ conns' = Append(conns, getDB("createDB", "CREATE"))
    /\ UNCHANGED <<tableExists, files>>

\* The statement at the head of connection i's queue runs. It fails when the
\* engine reports an error (fault) or when the table it names does not exist.
RunStatement(i, fault) ==
    /\ i \in 1..Len(conns)
    /\ conns[i].queue # <<>>
    /\ LET c    == conns[i]
           stmt == Head(c.queue)
           last == Len(c.queue) = 1
           err  == fault \/ (stmt # "CREATE" /\ ~tableExists)
           res  == IF err THEN "err" ELSE "ok"
       IN  /\ tableExists' = (tableExists \/ (stmt = "CREATE" /\ ~err))
           /\ files' =
                IF err THEN files
                ELSE CASE stmt = "INSERT" ->
                            InsertOrReplace(files, InsertColumns,
                                InsertParams(c.file, c.summary, c.dependenciesLibs))
                       [] stmt = "DELETE" -> DeleteWhere(files, c.filePath)
                       [] OTHER -> files
           /\ conns' = [conns EXCEPT ![i] =
                [c EXCEPT
                    !.queue = Tail(c.queue),
                    !.result = IF last THEN res ELSE c.result,
                    !.returned =
                        IF stmt = "SELECT"
                        THEN (IF err THEN "rejected" ELSE "resolved")
                        ELSE c.returned,
                    !.rows =
                        IF stmt = "SELECT" /\ ~err
                        THEN SelectProjection(files) ELSE c.rows]]

----------------------------------------------------------------------------
(* The file system, as fsInput.js reads it *)

\* The scanned root; every absolute path starts with it.
Root == <<"repo">>

\* The order in which readdirSync lists the entries of a directory.
DirOrder == <<"a.js", "b.js", "b.md", "c.js", "lib.js", "node_modules", "src">>

\* A name, cut at its dots.
Segments(name) ==
    CASE name = "a.js" -> <<"a", "js">>
      [] name = "b.js" -> <<"b", "js">>
      [] name = "b.md" -> <<"b", "md">>
      [] name = "c.js" -> <<"c", "js">>
      [] name = "lib.js" -> <<"lib", "js">>
      [] OTHER -> <<name>>

\* An extension with its leading dot; the empty string is <<>>.
Ext(segment) == <<".", segment>>

\* path.extname: from the last dot of the last component to its end; empty
\* when the component has no dot or only a leading one.
extname(path) ==
    LET seg == Segments(path[Len(path)])
    IN  IF Len(seg) < 2 \/ (Len(seg) = 2 /\ seg[1] = "") THEN <<>>
        ELSE Ext(seg[Len(seg)])

\* Array.prototype.includes
includes(array, x) == \E i \in 1..Len(array) : array[i] = x

\* A node of the tree; error is what the file system answers to the calls
\* made on it, "no" when it answers them.
Dir == [kind |-> "dir", content |-> NULL, mtimeMs |-> 0, error |-> "no"]
File(content, mtimeMs) ==
    [kind |-> "file", content |-> content, mtimeMs |-> mtimeMs, error |-> "no"]

\* A directory the process may not list: readdirSync throws EACCES.
Unlistable == [Dir EXCEPT !.error = "EACCES"]

\* An entry readdirSync still lists and that is deleted before it is
\* statted: statSync throws ENOENT.
Vanished == [kind |-> "gone", content |-> NULL, mtimeMs |-> 0, error |-> "ENOENT"]

\* fs.readdirSync: it throws, or returns the names in the directory.
readdirSync(dir) ==
    [threw   |-> IF fs[dir].error = "EACCES" THEN "EACCES" ELSE "no",
     entries |-> SelectSeq(DirOrder, LAMBDA name : Append(dir, name) \in DOMAIN fs)]

\* A statSync that answers for an entry that is gone, as for a file of no
\* size, where fs.statSync throws.
statSyncOrNothing(path) ==
    [threw       |-> "no",
     isDirectory |-> fs[path].kind = "dir",
     mtimeMs     |-> fs[path].mtimeMs]

\* fs.statSync: it throws, or returns the Stats of the entry.
statSync(path) ==
    [threw       |-> IF fs[path].error = "ENOENT" THEN "ENOENT" ELSE "no",
     isDirectory |-> fs[path].kind = "dir",
     mtimeMs     |-> fs[path].mtimeMs]

\* path.relative(dir, filePathFull), with '/' as the separator.
relative(dir, filePathFull) == SubSeq(filePathFull, Len(dir) + 1, Len(filePathFull))

----------------------------------------------------------------------------
(* fsInput.js *)

\* getFilePaths(dir): the project files below dir and, as totalFiles, what the
\* call and the calls it makes add to the module's totalFiles. When
\* readdirSync or statSync throws, in this call or in one it makes, the call
\* ends there (threw): it returns no list and line 37 is not reached, while
\* the calls that had returned before have added to totalFiles.
RECURSIVE getFilePaths(_)
getFilePaths(dir) ==
    LET listing    == readdirSync(dir)
        dirEntries == listing.entries
        RECURSIVE visit(_, _)
        visit(i, acc) ==
            IF i > Len(dirEntries) THEN acc
            ELSE LET file     == dirEntries[i]
                     filePath == Append(dir, file)
                     stats    == statSync(filePath)
                 IN  IF stats.threw # "no"
                     THEN [acc EXCEPT !.threw = stats.threw]
                     ELSE IF stats.isDirectory /\ ~includes(ignoreList, file)
                     THEN LET sub == getFilePaths(filePath)
                          IN  IF sub.threw # "no"
                              THEN [acc EXCEPT !.threw = sub.threw,
                                               !.totalFiles = @ + sub.totalFiles]
                              ELSE visit(i + 1,
                                     [acc EXCEPT
                                         !.projectFiles = @ \o sub.projectFiles,
                                         !.totalFiles = @ + sub.totalFiles])
                     ELSE IF includes(fileExtensionsToProcess, extname(filePath))
                     THEN visit(i + 1,
                                [acc EXCEPT !.projectFiles = Append(@, filePath)])
                     ELSE visit(i + 1, acc)
        end == visit(1, [projectFiles |-> <<>>, totalFiles |-> 0, threw |-> "no"])
    IN  IF listing.threw # "no"
        THEN [projectFiles |-> <<>>, totalFiles |-> 0, threw |-> listing.threw]
        ELSE IF end.threw # "no"
        THEN [end EXCEPT !.projectFiles = <<>>]
        ELSE [end EXCEPT !.totalFiles = @ + Len(end.projectFiles)]

\* parseFileContent without path.relative: the record keeps the absolute path.
parseFileContentAbsolute(dir, filePathFull, fileContent) ==
    FileRecord(filePathFull, fileContent, statSync(filePathFull).mtimeMs)

\* parseFileContent(dir, filePathFull, fileContent)
parseFileContent(dir, filePathFull, fileContent) ==
    FileRecord(relative(dir, filePathFull), fileContent, statSync(filePathFull).mtimeMs)

\* updateProgressBar with a bar as wide as the percentage, not half of it.
updateProgressBarFullWidth(completed, total) ==
    IF total = 0
    THEN [progress |-> -1, progressBarWidth |-> -1, rangeError |-> completed > 0]
    ELSE LET percent == (completed * 100) \div total
         IN  [progress |-> percent, progressBarWidth |-> percent,
              rangeError |-> 50 - percent < 0]

\* updateProgressBar: the percentage and the bar width it computes, and
\* whether String.prototype.repeat throws a RangeError (a negative or an
\* infinite count). A division by 0 gives a value that is not finite, which
\* is written -1 here.
updateProgressBar(completed, total) ==
    IF total = 0
    THEN [progress |-> -1, progressBarWidth |-> -1, rangeError |-> completed > 0]
    ELSE LET percent == (completed * 100) \div total
             width   == percent \div 2
         IN  [progress |-> percent, progressBarWidth |-> width,
              rangeError |-> 50 - width < 0]

\* The loop of loadFiles over the paths getFilePaths returned.
RECURSIVE readAll(_, _, _, _)
readAll(dir, paths, i, acc) ==
    IF i > Len(paths) THEN acc
    ELSE LET filePath == paths[i]
         IN  IF fs[filePath].kind = "dir"
             THEN [acc EXCEPT !.threw = "EISDIR"]
             ELSE LET fileContent == fs[filePath].content
                  IN  IF fileContent = ""
                      THEN readAll(dir, paths, i + 1, acc)
                      ELSE LET completed == acc.completedFiles + 1
                               bar       == updateProgressBar(completed, acc.totalFiles)
                               next      ==
                                 [acc EXCEPT
                                     !.files = Append(@,
                                         parseFileContent(dir, filePath, fileContent)),
                                     !.completedFiles = completed]
                           IN  IF bar.rangeError
                               THEN [next EXCEPT !.threw = "RangeError"]
                               ELSE readAll(dir, paths, i + 1,
                                        [next EXCEPT !.progress = <<bar.progress>>])

\* loadFiles(dir), as an operator: what the call returns and what it leaves in
\* the module's counters. What getFilePaths throws is not caught: the loop is
\* not entered and the call ends with the same error.
loadFilesResult(dir) ==
    LET scan == getFilePaths(dir)
    IN  [filePaths |-> scan.projectFiles,
         run |-> readAll(dir, scan.projectFiles, 1,
                    [files          |-> <<>>,
                     threw          |-> scan.threw,
                     totalFiles     |-> totalFiles + scan.totalFiles,
                     completedFiles |-> completedFiles,
                     progress       |-> progress])]

\* loadFiles(dir)
loadFiles(dir) ==
    /\ LET r == loadFilesResult(dir)
       IN  /\ filePaths' = r.filePaths
           /\ loaded' = [threw |-> r.run.threw, files |-> r.run.files]
           /\ totalFiles' = r.run.totalFiles
           /\ completedFiles' = r.run.completedFiles
           /\ progress' = r.run.progress
    /\ scans' = scans + 1
    /\ UNCHANGED <<fs, ignoreList, fileExtensionsToProcess>>

----------------------------------------------------------------------------
(* The trees the scanner is run on *)

ScanNames == {"a.js", "b.md", "lib.js", "node_modules", "src"}
ScanContents == {"", "x"}
IgnoreLists == {<<>>, <<"node_modules">>, <<"node_modules", "lib.js">>}
ExtensionLists == {<<Ext("js")>>}

Nodes == Cardinality(DOMAIN fs) - 1

\* A directory or a file appears in an existing directory, before the scan.
AddEntry(parent, name, node) ==
    /\ scans = 0
    /\ Nodes < MaxNodes
    /\ parent \in DOMAIN fs
    /\ fs[parent].kind = "dir"
    /\ Append(parent, name) \notin DOMAIN fs
    /\ fs' = (Append(parent, name) :> node) @@ fs
    /\ UNCHANGED <<ignoreList, fileExtensionsToProcess, totalFiles, completedFiles,
                   progress, filePaths, loaded, scans, storeVars, passVars>>

\* The store of a fresh database file, before any operation.
StoreStart ==
    /\ tableExists = FALSE
    /\ files = <<>>
    /\ conns = <<>>

\* The module state of fsInput.js when it has just been loaded.
CountersStart ==
    /\ totalFiles = 0
    /\ completedFiles = 0
    /\ progress = <<>>
    /\ filePaths = <<>>
    /\ loaded = [threw |-> "no", files |-> <<>>]
    /\ scans = 0

NoChangeSet == [added |-> <<>>, modified |-> <<>>, unchanged |-> <<>>, removed |-> <<>>]

\* No pass is under way.
PassIdle ==
    /\ live = <<>>
    /\ manifest = <<>>
    /\ changeSet = NoChangeSet
    /\ step = "idle"
    /\ passes = <<>>

ScanInit ==
    /\ StoreStart
    /\ CountersStart
    /\ PassIdle
    /\ fs = (Root :> Dir)
    /\ ignoreList \in IgnoreLists
    /\ fileExtensionsToProcess \in ExtensionLists

ScanNext ==
    \/ \E parent \in DOMAIN fs, name \in ScanNames : AddEntry(parent, name, Dir)
    \/ \E parent \in DOMAIN fs, name \in ScanNames, c \in ScanContents :
          AddEntry(parent, name, File(c, 1))
    \/ scans < MaxScans /\ loadFiles(Root) /\ UNCHANGED <<storeVars, passVars>>

ScanSpec == ScanInit /\ [][ScanNext]_vars

----------------------------------------------------------------------------
(* The scanner on trees the file system does not answer for *)

FaultNames == {"a.js", "b.md", "node_modules", "src"}
FaultNodes == {Dir, Unlistable, File("x", 1), Vanished}

FaultInit ==
    /\ StoreStart
    /\ CountersStart
    /\ PassIdle
    /\ fs \in {(Root :> Dir), (Root :> Unlistable)}
    /\ ignoreList = <<"node_modules">>
    /\ fileExtensionsToProcess = <<Ext("js")>>

FaultNext ==
    \/ \E parent \in DOMAIN fs, name \in FaultNames, node \in FaultNodes :
          AddEntry(parent, name, node)
    \/ scans < MaxScans /\ loadFiles(Root) /\ UNCHANGED <<storeVars, passVars>>

FaultSpec == FaultInit /\ [][FaultNext]_vars

----------------------------------------------------------------------------
(* The store on its own *)

Init ==
    /\ StoreStart
    /\ CountersStart
    /\ PassIdle
    /\ fs = (Root :> Dir)
    /\ ignoreList = <<"node_modules">>
    /\ fileExtensionsToProcess = <<Ext("js")>>

Next ==
    \/ \E p \in StorePaths, g \in Generations :
          /\ Issued < MaxOps
          /\ insertOrUpdateFile(FileRecord(p, g.content, g.mtimeMs),
                                g.summary, g.dependenciesLibs)
          /\ UNCHANGED <<scanVars, passVars>>
    \/ \E p \in StorePaths :
          Issued < MaxOps /\ deleteFile(p) /\ UNCHANGED <<scanVars, passVars>>
    \/ Issued < MaxOps /\ getDBFiles /\ UNCHANGED <<scanVars, passVars>>
    \/ Issued = 0 /\ createDB /\ UNCHANGED <<scanVars, passVars>>
    \/ \E i \in 1..Len(conns), fault \in BOOLEAN :
          RunStatement(i, fault) /\ UNCHANGED <<scanVars, passVars>>

Spec == Init /\ [][Next]_vars

----------------------------------------------------------------------------
(* The reconciler *)

\* The elements of a sequence.
Range(seq) == {seq[i] : i \in 1..Len(seq)}

\* The key-indexed lookup over the manifest projection: path -> row. A later
\* row of the same path overwrites an earlier one.
ManifestIndex(M) ==
    [p \in {M[i].path : i \in 1..Len(M)} |->
        M[CHOOSE i \in 1..Len(M) :
            /\ M[i].path = p
            /\ \A j \in 1..Len(M) : M[j].path = p => j <= i]]

\* A classification that lets an equal timestamp stand for equal content.
ClassifyWithTimestamp(index, file) ==
    IF file.filePath \notin DOMAIN index THEN "added"
    ELSE IF index[file.filePath].timestamp = file.fileTimestamp THEN "unchanged"
    ELSE IF index[file.filePath].hash # file.fileHash THEN "modified"
    ELSE "unchanged"

\* The class of one live record against the index.
Classify(index, file) ==
    IF file.filePath \notin DOMAIN index THEN "added"
    ELSE IF index[file.filePath].hash # file.fileHash THEN "modified"
    ELSE "unchanged"

\* The paths of the live records of one class, in scan order.
LiveOfClass(index, L, class) ==
    LET picked == SelectSeq(L, LAMBDA file : Classify(index, file) = class)
    IN  [i \in 1..Len(picked) |-> picked[i].filePath]

\* A reconciler that never reports a removed path.
ReconcileForgetsRemoved(L, M) ==
    LET index == ManifestIndex(M)
    IN  [added     |-> LiveOfClass(index, L, "added"),
         modified  |-> LiveOfClass(index, L, "modified"),
         unchanged |-> LiveOfClass(index, L, "unchanged"),
         removed   |-> <<>>]

\* The change-set of a pass: the live set L against the manifest projection M.
Reconcile(L, M) ==
    LET index     == ManifestIndex(M)
        livePaths == {L[i].filePath : i \in 1..Len(L)}
        gone      == SelectSeq(M, LAMBDA row : row.path \notin livePaths)
    IN  [added     |-> LiveOfClass(index, L, "added"),
         modified  |-> LiveOfClass(index, L, "modified"),
         unchanged |-> LiveOfClass(index, L, "unchanged"),
         removed   |-> [i \in 1..Len(gone) |-> gone[i].path]]

----------------------------------------------------------------------------
(* The reconciler on every live set and manifest projection of a small domain *)

ReconPaths == <<<<"a.js">>, <<"b.js">>, <<"src", "c.js">>, <<"src", "d.js">>>>
ReconTimestamps == {1, 2}
LiveContents == {"x"}
ManifestContents == {"x", "z"}
Absent == "absent"

\* What a scan may hold for one path, and what the manifest may.
LiveOptions ==
    {FileRecord(Absent, "", 0)} \cup
    {FileRecord(NULL, c, t) : c \in LiveContents, t \in ReconTimestamps}
ManifestOptions ==
    {[path |-> Absent, hash |-> hashFile(""), timestamp |-> 0]} \cup
    {[path |-> NULL, hash |-> hashFile(c), timestamp |-> t] :
        c \in ManifestContents, t \in ReconTimestamps}

\* The live set of a choice of options, in the order of ReconPaths.
LiveOf(choice) ==
    LET present == SelectSeq([i \in 1..Len(ReconPaths) |-> i],
                             LAMBDA i : choice[i].filePath # Absent)
    IN  [k \in 1..Len(present) |->
            [choice[present[k]] EXCEPT !.filePath = ReconPaths[present[k]]]]

\* The manifest projection of a choice of options, in the opposite order.
ManifestOf(choice) ==
    LET present == SelectSeq([i \in 1..Len(ReconPaths) |-> Len(ReconPaths) + 1 - i],
                             LAMBDA i : choice[i].path # Absent)
    IN  [k \in 1..Len(present) |->
            [choice[present[k]] EXCEPT !.path = ReconPaths[present[k]]]]

ReconInit ==
    /\ StoreStart
    /\ CountersStart
    /\ fs = (Root :> Dir)
    /\ ignoreList = <<"node_modules">>
    /\ fileExtensionsToProcess = <<Ext("js")>>
    /\ \E choice \in [1..Len(ReconPaths) -> LiveOptions] : live = LiveOf(choice)
    /\ \E choice \in [1..Len(ReconPaths) -> ManifestOptions] :
          manifest = ManifestOf(choice)
    /\ changeSet = NoChangeSet
    /\ step = "reconcile"
    /\ passes = <<>>

\* The pass classifies its live set against its manifest projection.
ReconcilePass ==
    /\ step = "reconcile"
    /\ changeSet' = Reconcile(live, manifest)
    /\ passes' = Append(passes, changeSet')
    /\ step' = "reconciled"
    /\ UNCHANGED <<live, manifest, storeVars, scanVars>>

ReconNext == ReconcilePass

ReconSpec == ReconInit /\ [][ReconNext]_vars

----------------------------------------------------------------------------
(* Successive passes over one root: scan, list, reconcile, persist *)

ScenarioTree ==
    (Root :> Dir)
    @@ (Append(Root, "a.js") :> File("x", 1))
    @@ (Append(Root, "b.js") :> File("y", 1))
    @@ (Append(Root, "node_modules") :> Dir)
    @@ (Root \o <<"node_modules", "c.js">> :> File("x", 1))

PassInit ==
    /\ StoreStart
    /\ CountersStart
    /\ fs = ScenarioTree
    /\ ignoreList = <<"node_modules">>
    /\ fileExtensionsToProcess = <<Ext("js")>>
    /\ live = <<>>
    /\ manifest = <<>>
    /\ changeSet = NoChangeSet
    /\ step = "load"
    /\ passes = <<>>

\* Every statement queued so far has run, and none failed.
Settled ==
    \A i \in 1..Len(conns) : conns[i].queue = <<>> /\ conns[i].result = "ok"

\* The pass scans the tree and fingerprints its files.
PassLoad ==
    /\ step = "load"
    /\ loadFiles(Root)
    /\ live' = loaded'.files
    /\ step' = IF loaded'.threw = "no" THEN "list" ELSE "failed"
    /\ UNCHANGED <<manifest, changeSet, passes, storeVars>>

\* The pass asks the store for its projection, once what the previous pass
\* persisted is in the store.
PassList ==
    /\ step = "list"
    /\ Settled
    /\ getDBFiles
    /\ step' = "await"
    /\ UNCHANGED <<live, manifest, changeSet, passes, scanVars>>

\* The promise of getDBFiles resolved: the pass classifies.
PassReconcile ==
    /\ step = "await"
    /\ conns[Len(conns)].returned = "resolved"
    /\ manifest' = conns[Len(conns)].rows
    /\ changeSet' = Reconcile(live, manifest')
    /\ passes' = Append(passes, changeSet')
    /\ step' = CASE Len(passes) = 0 -> "persist"
                 [] Len(passes) = 1 -> "delete"
                 [] OTHER -> "done"
    /\ UNCHANGED <<live, storeVars, scanVars>>

\* The promise of getDBFiles rejected: the pass is abandoned.
PassFails ==
    /\ step = "await"
    /\ conns[Len(conns)].returned = "rejected"
    /\ step' = "failed"
    /\ UNCHANGED <<live, manifest, changeSet, passes, storeVars, scanVars>>

\* The live records the pass found added or modified.
ToPersist ==
    SelectSeq(live, LAMBDA file :
        file.filePath \in Range(changeSet.added) \cup Range(changeSet.modified))

Persisted == Cardinality({i \in 1..Len(conns) : conns[i].op = "insertOrUpdateFile"})

\* The caller persists the next processed file, with the summary and the
\* dependencies the summariser returned for it.
PassPersist ==
    /\ step = "persist"
    /\ Persisted < Len(ToPersist)
    /\ \E g \in Generations :
          insertOrUpdateFile(ToPersist[Persisted + 1], g.summary, g.dependenciesLibs)
    /\ step' = IF Persisted + 1 = Len(ToPersist) THEN "edit" ELSE "persist"
    /\ UNCHANGED <<live, manifest, changeSet, passes, scanVars>>

\* a.js is edited on disk.
EditA ==
    /\ step = "edit"
    /\ fs' = [fs EXCEPT ![Append(Root, "a.js")] = File("z", 2)]
    /\ step' = "load"
    /\ UNCHANGED <<ignoreList, fileExtensionsToProcess, totalFiles, completedFiles,
                   progress, filePaths, loaded, scans,
                   live, manifest, changeSet, passes, storeVars>>

\* b.js is deleted from disk.
DeleteB ==
    /\ step = "delete"
    /\ fs' = [path \in DOMAIN fs \ {Append(Root, "b.js")} |-> fs[path]]
    /\ step' = "load"
    /\ UNCHANGED <<ignoreList, fileExtensionsToProcess, totalFiles, completedFiles,
                   progress, filePaths, loaded, scans,
                   live, manifest, changeSet, passes, storeVars>>

PassNext ==
    \/ PassLoad
    \/ PassList
    \/ PassReconcile
    \/ PassFails
    \/ PassPersist
    \/ EditA
    \/ DeleteB
    \/ \E i \in 1..Len(conns), fault \in BOOLEAN :
          RunStatement(i, fault) /\ UNCHANGED <<scanVars, passVars>>

PassSpec == PassInit /\ [][PassNext]_vars

----------------------------------------------------------------------------
(* Properties of the reconciler *)

LivePaths == {live[i].filePath : i \in 1..Len(live)}
ManifestPaths == {manifest[i].path : i \in 1..Len(manifest)}

LiveHash(p) == live[CHOOSE i \in 1..Len(live) : live[i].filePath = p].fileHash
ManifestHash(p) == manifest[CHOOSE i \in 1..Len(manifest) : manifest[i].path = p].hash

\* How often path p is listed in a sequence of paths.
Times(seq, p) == Cardinality({i \in 1..Len(seq) : seq[i] = p})

\* C1. Reconciliation completeness: each path of the live set or of the
\* manifest projection is listed exactly once over Added, Modified, Unchanged
\* and Removed taken together, the four list nothing else, and they are:
\* Added = live and not in the manifest, Removed = in the manifest and not
\* live, Modified and Unchanged = in both, with different and with equal hash.
C1_ReconciliationPartition ==
    step = "reconciled" =>
        LET cs == changeSet
        IN  /\ \A p \in LivePaths \cup ManifestPaths :
                 Times(cs.added, p) + Times(cs.modified, p)
                 + Times(cs.unchanged, p) + Times(cs.removed, p) = 1
            /\ Range(cs.added) \cup Range(cs.modified) \cup Range(cs.unchanged)
               \cup Range(cs.removed) = LivePaths \cup ManifestPaths
            /\ Range(cs.added) = LivePaths \ ManifestPaths
            /\ Range(cs.removed) = ManifestPaths \ LivePaths
            /\ Range(cs.modified) =
                 {p \in LivePaths \cap ManifestPaths : LiveHash(p) # ManifestHash(p)}
            /\ Range(cs.unchanged) =
                 {p \in LivePaths \cap ManifestPaths : LiveHash(p) = ManifestHash(p)}

\* A pass whose four classes are all inhabited.
C1_Witness ==
    /\ step = "reconciled"
    /\ changeSet.added # <<>>
    /\ changeSet.modified # <<>>
    /\ changeSet.unchanged # <<>>
    /\ changeSet.removed # <<>>

\* The live set and the manifest projection with other timestamps.
RetimeLive(L, t) == [i \in 1..Len(L) |-> [L[i] EXCEPT !.fileTimestamp = t[L[i].filePath]]]
RetimeManifest(M, t) == [i \in 1..Len(M) |-> [M[i] EXCEPT !.timestamp = t[M[i].path]]]

\* C2. Hash authority over timestamp: a path in both the live set and the
\* manifest is Unchanged when the two hashes are equal and Modified when they
\* differ, and the change-set is the same whatever the timestamps of the live
\* records and whatever those of the manifest rows.
C2_HashAuthority ==
    step = "reconciled" =>
        /\ \A i \in 1..Len(live), j \in 1..Len(manifest) :
              live[i].filePath = manifest[j].path =>
                 IF live[i].fileHash = manifest[j].hash
                 THEN /\ live[i].filePath \in Range(changeSet.unchanged)
                      /\ live[i].filePath \notin Range(changeSet.modified)
                 ELSE /\ live[i].filePath \in Range(changeSet.modified)
                      /\ live[i].filePath \notin Range(changeSet.unchanged)
        /\ \A t \in [LivePaths -> ReconTimestamps] :
              Reconcile(RetimeLive(live, t), manifest) = changeSet
        /\ \A t \in [ManifestPaths -> ReconTimestamps] :
              Reconcile(live, RetimeManifest(manifest, t)) = changeSet

\* One path with equal hashes under different timestamps, found Unchanged, and
\* one with different hashes under equal timestamps, found Modified.
C2_Witness ==
    /\ step = "reconciled"
    /\ \E i \in 1..Len(live), j \in 1..Len(manifest) :
          /\ live[i].filePath = manifest[j].path
          /\ live[i].fileHash = manifest[j].hash
          /\ live[i].fileTimestamp # manifest[j].timestamp
          /\ live[i].filePath \in Range(changeSet.unchanged)
    /\ \E i \in 1..Len(live), j \in 1..Len(manifest) :
          /\ live[i].filePath = manifest[j].path
          /\ live[i].fileHash # manifest[j].hash
          /\ live[i].fileTimestamp = manifest[j].timestamp
          /\ live[i].filePath \in Range(changeSet.modified)

----------------------------------------------------------------------------
(* Properties of successive passes *)

\* Path p is in none of the four classes of change-set cs.
InNoClass(cs, p) ==
    p \notin Range(cs.added) \cup Range(cs.modified)
             \cup Range(cs.unchanged) \cup Range(cs.removed)

\* C3. Over the root holding a.js ("x"), b.js ("y") and the ignored
\* node_modules/c.js: the first pass, against the empty manifest, gives
\* Added = {a.js, b.js} and Removed = {}; once both are persisted and a.js is
\* edited to "z", the second pass gives Modified = {a.js} and
\* Unchanged = {b.js}; once b.js is deleted from disk, the third pass gives
\* Removed = {b.js}; node_modules/c.js is in no class of any pass.
C3_SuccessivePasses ==
    /\ Len(passes) >= 1 =>
          /\ Range(passes[1].added) = {<<"a.js">>, <<"b.js">>}
          /\ Len(passes[1].added) = 2
          /\ passes[1].removed = <<>>
    /\ Len(passes) >= 2 =>
          /\ passes[2].modified = <<<<"a.js">>>>
          /\ passes[2].unchanged = <<<<"b.js">>>>
    /\ Len(passes) >= 3 =>
          passes[3].removed = <<<<"b.js">>>>
    /\ \A k \in 1..Len(passes) : InNoClass(passes[k], <<"node_modules", "c.js">>)

\* The third pass has classified, after the edit of a.js and the deletion of
\* b.js.
C3_Witness ==
    /\ Len(passes) = 3
    /\ step = "done"
    /\ fs[Append(Root, "a.js")].content = "z"
    /\ Append(Root, "b.js") \notin DOMAIN fs

----------------------------------------------------------------------------
(* Properties of the store *)

IsInsert(c) == c.op = "insertOrUpdateFile"
IsDelete(c) == c.op = "deleteFile"
IsSelect(c) == c.op = "getDBFiles"

\* The statement of the call has run and its callback got no error.
Succeeded(c) == c.queue = <<>> /\ c.result = "ok"

\* The row the arguments of an insertOrUpdateFile call describe.
ArgsRow(c) ==
    [path               |-> c.file.filePath,
     tokensCount        |-> c.file.fileTokensCount,
     summary            |-> c.summary,
     summaryTokensCount |-> countTokens(c.summary),
     hash               |-> c.file.fileHash,
     timestamp          |-> c.file.fileTimestamp,
     dependenciesLibs   |-> c.dependenciesLibs]

\* The INSERT OR REPLACE of connection i runs in this step, without error.
InsertCompletes(i) ==
    /\ IsInsert(conns[i])
    /\ conns[i].queue = <<"INSERT">>
    /\ conns'[i].queue = <<>>
    /\ conns'[i].result = "ok"

\* C4. Upsert replaces whole entries and is idempotent: when the statement of
\* an insertOrUpdateFile call completes, the table holds one row at the call's
\* path, all seven columns of it are those of the call, and running the same
\* statement once more would leave the table as it is.
C4_UpsertReplacesWholeRow ==
    [][\A i \in 1..Len(conns) :
          InsertCompletes(i) =>
             /\ SelectSeq(files', LAMBDA r : r.path = conns[i].filePath)
                = <<ArgsRow(conns[i])>>
             /\ InsertOrReplace(files', InsertColumns,
                   InsertParams(conns[i].file, conns[i].summary,
                                conns[i].dependenciesLibs)) = files'
      ]_vars

\* Three calls for one path have completed: one of an earlier generation, and
\* then the same call twice.
C4_Witness ==
    \E i, j, k \in 1..Len(conns) :
        /\ i # j /\ j # k /\ i # k
        /\ IsInsert(conns[i]) /\ IsInsert(conns[j]) /\ IsInsert(conns[k])
        /\ Succeeded(conns[i]) /\ Succeeded(conns[j]) /\ Succeeded(conns[k])
        /\ conns[i].filePath = conns[j].filePath
        /\ conns[i].file.fileHash # conns[j].file.fileHash
        /\ ArgsRow(conns[j]) = ArgsRow(conns[k])
        /\ files = <<ArgsRow(conns[j])>>

\* The calls before call k, in the order they were made, that name path p.
OnPathBefore(k, p) ==
    {j \in 1..(k - 1) : (IsInsert(conns[j]) \/ IsDelete(conns[j])) /\ conns[j].filePath = p}

\* The last call before call k that names path p.
LastOnPathBefore(k, p) ==
    CHOOSE j \in OnPathBefore(k, p) : \A h \in OnPathBefore(k, p) : h <= j

\* C5. Deletion is immediate and final: a getDBFiles call made after
\* deleteFile(path) returned resolves with no row for that path, unless
\* insertOrUpdateFile was called for the path after the delete (or the DELETE
\* statement itself failed).
C5_DeletionImmediateAndFinal ==
    \A k \in 1..Len(conns) :
        IsSelect(conns[k]) /\ conns[k].returned = "resolved" =>
            \A r \in 1..Len(conns[k].rows) :
                ~ \E j \in 1..(k - 1) :
                    /\ IsDelete(conns[j])
                    /\ conns[j].result # "err"
                    /\ conns[j].filePath = conns[k].rows[r].path
                    /\ \A h \in (j + 1)..Len(conns) :
                          ~(IsInsert(conns[h]) /\ conns[h].filePath = conns[j].filePath)

\* What a caller takes for a failed operation.
FailureOutcomes == {"threw", "rejected", "error"}

\* C6. Store failures are propagated: when the statement of
\* insertOrUpdateFile or of deleteFile failed, what the caller of the
\* operation holds is a failure, not what it holds after a successful write.
C6_StoreFailuresPropagated ==
    \A i \in 1..Len(conns) :
        (IsInsert(conns[i]) \/ IsDelete(conns[i])) /\ conns[i].result = "err" =>
            conns[i].returned \in FailureOutcomes

\* The rows of a projection that carry path p.
RowsOf(rows, p) == SelectSeq(rows, LAMBDA r : r.path = p)

\* C7. Operations of one pass interleave safely: a getDBFiles call resolves
\* with every entry written by the calls made before it, each exactly once;
\* for each path whose last call before it was an insertOrUpdateFile (one
\* whose statement did not fail) it holds exactly one row, with that call's
\* hash and timestamp.
C7_ListAllSeesEarlierWrites ==
    \A k \in 1..Len(conns) :
        IsSelect(conns[k]) /\ conns[k].returned = "resolved" =>
            \A p \in StorePaths :
                OnPathBefore(k, p) # {} =>
                    LET c == conns[LastOnPathBefore(k, p)]
                    IN  IsInsert(c) /\ c.result # "err" =>
                           RowsOf(conns[k].rows, p) =
                              <<[path      |-> p,
                                 hash      |-> c.file.fileHash,
                                 timestamp |-> c.file.fileTimestamp]>>

\* C10. Hash and summary move together: every row of the table is, in all its
\* columns and so in its hash and its summary, the row of one
\* insertOrUpdateFile call whose statement has completed.
C10_HashAndSummaryFromOneCall ==
    \A r \in 1..Len(files) :
        \E i \in 1..Len(conns) :
            /\ IsInsert(conns[i])
            /\ Succeeded(conns[i])
            /\ files[r].path = conns[i].filePath
            /\ files[r].hash = conns[i].file.fileHash
            /\ files[r].summary = conns[i].summary

\* A row written over a row of the other generation: two calls for its path
\* completed, with different hashes and different summaries.
C10_Witness ==
    \E r \in 1..Len(files), i, j \in 1..Len(conns) :
        /\ IsInsert(conns[i]) /\ IsInsert(conns[j])
        /\ Succeeded(conns[i]) /\ Succeeded(conns[j])
        /\ conns[i].filePath = files[r].path
        /\ conns[j].filePath = files[r].path
        /\ conns[i].file.fileHash # conns[j].file.fileHash
        /\ conns[i].summary # conns[j].summary
        /\ files[r].hash = conns[j].file.fileHash

\* The DELETE of connection i runs in this step, without error.
DeleteCompletes(i) ==
    /\ IsDelete(conns[i])
    /\ conns[i].queue = <<"DELETE">>
    /\ conns'[i].queue = <<>>
    /\ conns'[i].result = "ok"

\* No two rows of the table carry the same path.
PathIsKey(tbl) == \A i, j \in 1..Len(tbl) : tbl[i].path = tbl[j].path => i = j

\* C11. Path uniqueness: no step leaves two rows with one path in the table,
\* and its rows are those of the paths whose last completed statement was an
\* INSERT OR REPLACE: the table starts empty, the completion of an upsert
\* leaves one row at its path, the completion of a delete leaves none, and
\* every other step (a call being made, a CREATE, a SELECT, a statement that
\* fails) leaves the number of rows of each path as it was.
C11_PathUniqueness ==
    [][/\ PathIsKey(files')
       /\ \A r \in 1..Len(files') : files'[r].path \in StorePaths
       /\ \A p \in StorePaths :
             LET before == Len(RowsOf(files, p))
                 after  == Len(RowsOf(files', p))
             IN  IF \E i \in 1..Len(conns) : InsertCompletes(i) /\ conns[i].filePath = p
                 THEN after = 1
                 ELSE IF \E i \in 1..Len(conns) : DeleteCompletes(i) /\ conns[i].filePath = p
                      THEN after = 0
                      ELSE after = before
      ]_vars

\* Two upserts of different generations and a delete, all for one path, have
\* completed, the delete before the last upsert: the table holds one row.
C11_Witness ==
    \E i, j, k \in 1..Len(conns) :
        /\ IsInsert(conns[i]) /\ IsInsert(conns[j]) /\ IsDelete(conns[k])
        /\ Succeeded(conns[i]) /\ Succeeded(conns[j]) /\ Succeeded(conns[k])
        /\ conns[i].filePath = conns[j].filePath
        /\ conns[k].filePath = conns[j].filePath
        /\ conns[i].file.fileHash # conns[j].file.fileHash
        /\ Len(files) = 1
        /\ files[1].path = conns[j].filePath

\* The rows of a table that do not carry path p, in their order.
RowsNotOf(rows, p) == SelectSeq(rows, LAMBDA r : r.path # p)

\* C12. Delete touches only its key: when the DELETE of a deleteFile call
\* runs on the files table and the engine reports no error, no row is left at
\* the path of the call and every other row is as it was; when there was no
\* row at the path the table is as it was; in both cases the callback gets no
\* error, so that nothing is logged as a failure.
C12_DeleteTouchesOnlyItsKey ==
    [][\A i \in 1..Len(conns) :
          (/\ IsDelete(conns[i])
           /\ conns[i].queue = <<"DELETE">>
           /\ tableExists
           /\ RunStatement(i, FALSE)) =>
             /\ RowsOf(files', conns[i].filePath) = <<>>
             /\ RowsNotOf(files', conns[i].filePath) = RowsNotOf(files, conns[i].filePath)
             /\ (RowsOf(files, conns[i].filePath) = <<>> => files' = files)
             /\ conns'[i].result = "ok"
             /\ tableExists'
      ]_vars

\* Rows were stored for two paths and the delete of one of them has
\* completed: the row of the other path is all the table holds.
C12_Witness ==
    \E i, j, k \in 1..Len(conns) :
        /\ IsInsert(conns[i]) /\ IsInsert(conns[j]) /\ IsDelete(conns[k])
        /\ Succeeded(conns[i]) /\ Succeeded(conns[j]) /\ Succeeded(conns[k])
        /\ conns[i].filePath # conns[j].filePath
        /\ conns[k].filePath = conns[j].filePath
        /\ files = <<ArgsRow(conns[i])>>

\* The insertOrUpdateFile and deleteFile calls made for path p.
WritesOn(p) ==
    {k \in 1..Len(conns) : (IsInsert(conns[k]) \/ IsDelete(conns[k])) /\ conns[k].filePath = p}

\* C17. Writes to one path take effect in issue order: when two calls were
\* made for a path, an insertOrUpdateFile and after it an insertOrUpdateFile
\* or a deleteFile, and the statements of both have completed without error,
\* the table holds what the second call asked for: its row, or no row.
C17_WritesInIssueOrder ==
    \A p \in StorePaths :
        \A i, j \in WritesOn(p) :
            (/\ i < j
             /\ WritesOn(p) = {i, j}
             /\ IsInsert(conns[i])
             /\ Succeeded(conns[i])
             /\ Succeeded(conns[j])) =>
                RowsOf(files, p) =
                    IF IsInsert(conns[j]) THEN <<ArgsRow(conns[j])>> ELSE <<>>

\* The INSERT OR REPLACE, DELETE or SELECT of the call of connection i runs
\* in this step.
StatementRuns(i) ==
    /\ conns[i].queue # <<>>
    /\ Head(conns[i].queue) # "CREATE"
    /\ conns'[i].queue = Tail(conns[i].queue)

\* C18. Table before statements: the statement of an operation runs after
\* the CREATE TABLE IF NOT EXISTS of its connection, so that it runs on a
\* database that has the files table, on a fresh database file too.
C18_TableBeforeStatements ==
    [][\A i \in 1..Len(conns) :
          StatementRuns(i) => conns[i].queue = <<Head(conns[i].queue)>> /\ tableExists
      ]_vars

\* The connections that are open.
OpenConnections == {i \in 1..Len(conns) : conns[i].open}

\* The connections whose operation has run all its statements, callbacks
\* included.
Completed == {i \in 1..Len(conns) : conns[i].queue = <<>>}

\* C19. Connections are released: a connection is closed once the statement
\* of its operation has completed, with or without error; the connections
\* that are open are those of the operations still under way, however many
\* operations were performed.
C19_ConnectionsReleased ==
    /\ OpenConnections \cap Completed = {}
    /\ Cardinality(OpenConnections) <= Len(conns) - Cardinality(Completed)

----------------------------------------------------------------------------
(* Properties of the scanner *)

\* The directory at the first k components of path p is named in the ignore
\* list.
IgnoredAt(p, k) ==
    /\ fs[SubSeq(p, 1, k)].kind = "dir"
    /\ includes(ignoreList, p[k])

\* C8. Ignore-list enforcement: what getFilePaths(root) returns holds neither
\* the path of a directory named in the ignore list nor a path beneath one.
C8_IgnoreListEnforced ==
    scans > 0 =>
        \A i \in 1..Len(filePaths) :
            \A k \in (Len(Root) + 1)..Len(filePaths[i]) : ~IgnoredAt(filePaths[i], k)

\* A path getFilePaths is to return: a file with an accepted extension, no
\* directory above it and below the root named in the ignore list.
ProjectFile(p) ==
    /\ fs[p].kind = "file"
    /\ includes(fileExtensionsToProcess, extname(p))
    /\ \A k \in (Len(Root) + 1)..(Len(p) - 1) : ~IgnoredAt(p, k)

\* C9. Extension filtering is exact: getFilePaths(root) returns a path if and
\* only if it is a project file, and returns each of them once.
C9_ExactlyTheProjectFiles ==
    scans > 0 =>
        /\ \A i \in 1..Len(filePaths) :
              filePaths[i] \in DOMAIN fs /\ ProjectFile(filePaths[i])
        /\ \A p \in DOMAIN fs :
              ProjectFile(p) => Times(filePaths, p) = 1

\* The records of the live set that carry the relative path of p.
RecordsOf(p) ==
    SelectSeq(loaded.files, LAMBDA file : file.filePath = relative(Root, p))

\* C14. Empty files stay in the live set: when loadFiles has returned, the
\* live set holds exactly one FileRecord for every path getFilePaths
\* returned, whatever the length of the content of the file.
C14_EmptyFilesStayInLiveSet ==
    scans > 0 /\ loaded.threw = "no" =>
        /\ Len(loaded.files) = Len(filePaths)
        /\ \A i \in 1..Len(filePaths) : Len(RecordsOf(filePaths[i])) = 1

\* C15. Progress counters stay in range: no loadFiles call ends in a
\* RangeError, and at every call of updateProgressBar a loadFiles call makes
\* (one for each value completedFiles takes during the call, with the
\* totalFiles the scan of the call left) 0 < completedFiles <= totalFiles, the
\* percentage is in 0..100, the bar width in 0..50 and repeat gets no negative
\* count.
C15_ProgressCountersInRange ==
    [][/\ loaded'.threw # "RangeError"
       /\ completedFiles' <= totalFiles'
       /\ \A completed \in (completedFiles + 1)..completedFiles' :
             LET bar == updateProgressBar(completed, totalFiles')
             IN  /\ 0 < completed
                 /\ completed <= totalFiles'
                 /\ bar.progress \in 0..100
                 /\ bar.progressBarWidth \in 0..50
                 /\ 50 - bar.progressBarWidth >= 0
                 /\ ~bar.rangeError
      ]_vars

\* A second loadFiles call has drawn its bar, with counters left by the first.
C15_Witness ==
    /\ scans > 1
    /\ completedFiles > 1
    /\ completedFiles < totalFiles
    /\ progress # <<>>
    /\ loaded.threw = "no"
    /\ loaded.files # <<>>

\* C16. The scan total counts each file once: a loadFiles call whose scan
\* returned adds to totalFiles the number of paths getFilePaths(root)
\* returned; and when none of these files is empty and all were read, it
\* leaves completedFiles and totalFiles grown by the same number, the last
\* percentage shown being 100.
C16_ScanTotalCountsEachFileOnce ==
    [][scans' = scans + 1 /\ loaded'.threw = "no" =>
          /\ totalFiles' - totalFiles = Len(filePaths')
          /\ (\A i \in 1..Len(filePaths') : fs[filePaths'[i]].content # "") =>
                /\ completedFiles' - completedFiles = totalFiles' - totalFiles
                /\ (scans = 0 /\ filePaths' # <<>> => progress' = <<100>>)
      ]_vars

----------------------------------------------------------------------------
(* Properties of the scanner when the file system fails *)

\* The traversal from the root comes to path p: every directory above it can
\* be listed and, below the root, is not named in the ignore list.
Reached(p) ==
    \A k \in Len(Root)..(Len(p) - 1) :
        /\ fs[SubSeq(p, 1, k)].kind = "dir"
        /\ fs[SubSeq(p, 1, k)].error = "no"
        /\ (k > Len(Root) => ~includes(ignoreList, p[k]))

\* The traversal makes a call on path p that fails: it stats an entry that is
\* gone, or lists a directory it may not list (the root, or a directory that
\* is not ignored).
FailsAt(p) ==
    /\ Reached(p)
    /\ \/ fs[p].error = "ENOENT"
       \/ /\ fs[p].error = "EACCES"
          /\ (p = Root \/ ~includes(ignoreList, p[Len(p)]))

ScanErrors == {"EACCES", "ENOENT"}

\* C13. Scan failures abort the scan: when a listing or a stat of the
\* traversal fails, loadFiles, and so the caller of getFilePaths(root), ends
\* with that error, with no list of paths and no file built; when none fails,
\* whatever is ignored or rejected, the scan ends without error.
C13_ScanFailuresAbort ==
    scans > 0 =>
        IF \E p \in DOMAIN fs : FailsAt(p)
        THEN /\ loaded.threw \in ScanErrors
             /\ filePaths = <<>>
             /\ loaded.files = <<>>
        ELSE loaded.threw = "no"

\* A scan was aborted by a failure below the root, after the traversal had
\* come to a project file.
C13_Witness ==
    /\ scans > 0
    /\ loaded.threw \in ScanErrors
    /\ \E p, q \in DOMAIN fs :
          /\ Len(p) > Len(Root) + 1
          /\ FailsAt(p)
          /\ Reached(q)
          /\ fs[q].kind = "file"
          /\ includes(fileExtensionsToProcess, extname(q))

====
